---- MODULE Spec2Model ----
(***************************************************************************)
(* A model of the ingestion pipeline of scraper.py: the catalog file, the  *)
(* two source adapters (scrape_iaai, scrape_copart) and the coordinator    *)
(* run_scraper.  The external sites are the environment: every HTTP        *)
(* request is answered by a response drawn from a bounded set, which       *)
(* includes raised request errors, non-200 statuses and malformed bodies.  *)
(***************************************************************************)
EXTENDS Integers, Sequences, FiniteSets, TLC

\* ---------------------------------------------------------------- bounds
\* run_scraper executions explored in one behaviour
MaxRuns == 2
\* vehicle cards on the IAAI result page
MaxCards == 2
\* lots of a Copart page that are spelled out (the rest of the page is filler)
MaxLots == 1
\* lots one scrape_copart execution collects before the API only sends filler
MaxResults == 2

\* ------------------------------------------------------ program constants
\* payload["size"] and the literal 100 of the stop test
PageSize == 100
max_pages == 40

SEARCH_MODEL == "xc40"

\* ------------------------------------------------------------ raw inputs
\* the h4 of a card: absent, or its text
NoTag == "<no h4>"
H4s == {NoTag, "2022 VOLVO XC40"}
\* the href of a[href*='VehicleDetail'] of a card; "" is a card without one
Hrefs == {"", "/VehicleDetail/1", "https://www.copart.com/lot/VehicleDetail"}
\* the modelled hrefs for which href.startswith("/")
RelativeHrefs == {"/VehicleDetail/1"}
Cards == [h4 : H4s, href : Hrefs]

\* a lot of the Copart API: ln, mmod, ld.  Null is a JSON null.  An absent
\* key reads as "" (lot.get(key, "")).
Null == "<null>"
LotNums == {"VehicleDetail", ""}
Mmods == {"XC40", "S60", Null}
Lds == {"", "2022 VOLVO XC40", "2021 VOLVO S60"}
\* the lots spelled out: every ln with a matching lot, a lot that matches by
\* its ld only, a lot without ld, a lot of another model and a malformed lot
Lots ==
    {l \in [ln : LotNums, mmod : Mmods, ld : Lds] :
        \/ l.mmod = "XC40" /\ l.ld = "2022 VOLVO XC40"
        \/ l.ln = "VehicleDetail" /\ l.mmod = "S60" /\ l.ld # ""
        \/ l.ln = "VehicleDetail" /\ l.mmod = "XC40" /\ l.ld = ""
        \/ l.ln = "VehicleDetail" /\ l.mmod = Null /\ l.ld = "2022 VOLVO XC40"}
\* the strings s of the model with SEARCH_MODEL.upper() in s.upper()
HasModel == {"XC40", "2022 VOLVO XC40"}

SeqsUpTo(S, n) == UNION {[1..k -> S] : k \in 0..n}

\* ------------------------------------------------------------- the state
VARIABLES
    file_exists,     \* os.path.exists(DATA_FILE)
    file_content,    \* the catalog in DATA_FILE
    runs,            \* run_scraper executions started
    pc,              \* where run_scraper is
    existing,        \* run_scraper: existing
    existing_ids,    \* run_scraper: existing_ids
    new_listings,    \* run_scraper: new_listings
    iaai_results,    \* run_scraper: iaai_results (<<>> while unbound)
    iaai_raised,     \* scrape_iaai raised in this run
    copart_results,  \* run_scraper: copart_results (<<>> while unbound)
    copart_raised,   \* scrape_copart raised in this run
    page,            \* scrape_copart: page
    results,         \* scrape_copart: results
    posts,           \* the page indices scrape_copart has POSTed in this run
    gets,            \* the warm-up GETs scrape_copart has issued in this run
    last_resp,       \* the response to the last POST of this run
    prev,            \* what the adapters returned in the run before, and the file after it
    file_complete,   \* the text of DATA_FILE is the whole json.dump of file_content
    had_file,        \* os.path.exists(DATA_FILE) when this run loaded the catalog
    saves,           \* the save_listings calls of this run
    page_content,    \* the lots spelled out in the response to the last POST
    lot_prices,      \* _parse_copart_lot: the lot's la, rc, hb, bnp
    parsed_prices,   \* _parse_copart_lot: est_value, repair_cost, bid, buy_now
    IS_VERCEL,       \* app.py: IS_VERCEL
    _last_refresh_ts,\* app.py: _last_refresh_ts, in tenths of a second
    clock,           \* app.py: time.time(), in tenths of a second
    refresh_status,  \* app.py: the status of the last api_refresh response
    refresh_started, \* app.py: the scraper threads api_refresh has started
    refresh_remaining, \* app.py: "remaining" of the last api_refresh response
    summary,         \* run_scraper: what the summary block printed
    peer,            \* a second run_scraper process: where it is, its locals
    damage_code,     \* _translate_damage: dmg
    damage_label,    \* _translate_damage: the value returned
    threads,         \* app.py: the api_refresh requests being served
    read_result      \* app.py: what the last load_listings call gave

\* the state of run_scraper and of the catalog file
run_vars == <<file_exists, file_content, runs, pc, existing, existing_ids,
              new_listings, iaai_results, iaai_raised, copart_results,
              copart_raised, page, results, posts, gets, last_resp, prev,
              file_complete, had_file, saves, page_content, summary>>

\* the state of one _parse_copart_lot call on the price fields
price_vars == <<lot_prices, parsed_prices>>

\* the state of the refresh route of app.py
app_vars == <<IS_VERCEL, _last_refresh_ts, clock, refresh_status,
              refresh_started, refresh_remaining>>

\* the state of one _translate_damage call
damage_vars == <<damage_code, damage_label>>

\* the state of a second scraper process
peer_vars == <<peer>>

\* the state of the request threads and of the catalog reads of app.py
web_vars == <<threads, read_result>>

\* the state no step of run_scraper touches
not_run_vars == <<price_vars, damage_vars, app_vars, web_vars, peer_vars>>

vars == <<run_vars, not_run_vars>>


\* ------------------------------------------------------- the catalog store
load_existing_listings == IF file_exists THEN file_content ELSE <<>>

\* mutant: the listings are saved with the date of the save
save_listings_restamped(listings) ==
    /\ file_exists' = TRUE
    /\ file_content' = [i \in 1..Len(listings) |->
                           [listings[i] EXCEPT !.date_found = runs]]
    /\ file_complete' = TRUE
    /\ saves' = saves + 1

\* mutant: the file is written only where there is one already
save_listings_no_create(listings) ==
    /\ file_content' = IF file_exists THEN listings ELSE file_content
    /\ saves' = saves + 1
    /\ UNCHANGED <<file_exists, file_complete>>

\* the whole call: the file is opened, which creates or empties it, and
\* json.dump writes the listings
save_listings(listings) ==
    /\ file_exists' = TRUE
    /\ file_content' = listings
    /\ file_complete' = TRUE
    /\ saves' = saves + 1

\* mutant: the catalog loaded is not indexed
get_existing_ids_none(listings) == {}

get_existing_ids(listings) == {listings[i].link : i \in 1..Len(listings)}

\* ------------------------------------------------------------------ IAAI
\* the link of a card: "" without a link tag, the site origin before a
\* relative href, the href itself otherwise
IaaiLink(href) ==
    IF href = "" THEN ""
    ELSE IF href \in RelativeHrefs THEN "https://www.iaai.com" \o href
    ELSE href

\* None is <<>>, an item is <<item>>
_parse_iaai_card(card, t) ==
    IF card.h4 = NoTag THEN <<>>
    ELSE << [source |-> "IAAI", name |-> card.h4,
             link |-> IaaiLink(card.href), date_found |-> t] >>

RECURSIVE ParseCards(_, _)
ParseCards(cards, t) ==
    IF cards = <<>> THEN <<>>
    ELSE _parse_iaai_card(Head(cards), t) \o ParseCards(Tail(cards), t)

\* the answers to the GET of scrape_iaai: the request raises, a status other
\* than 200, or a page of cards
IaaiResponses ==
    {[kind |-> k, cards |-> <<>>] : k \in {"raise", "http_error"}}
    \cup {[kind |-> "ok", cards |-> c] : c \in SeqsUpTo(Cards, MaxCards)}

\* what scrape_iaai returns on a response that does not raise
scrape_iaai(resp, t) ==
    IF resp.kind # "ok" THEN <<>> ELSE ParseCards(resp.cards, t)

\* ---------------------------------------------------------------- Copart
\* mutant: a lot without a lot number has no link
CopartLink_of_number(ln) ==
    IF ln = "" THEN "" ELSE "https://www.copart.com/lot/" \o ln

\* f"https://www.copart.com/lot/{ln}"
CopartLink(ln) == "https://www.copart.com/lot/" \o ln

_parse_copart_lot(lot, t) ==
    IF lot.ld = "" THEN <<>>
    ELSE << [source |-> "Copart", name |-> lot.ld,
             link |-> CopartLink(lot.ln), date_found |-> t] >>

\* mutant: the lots are not filtered by model
MatchesModel_any(lot) == TRUE

\* ------------------------------------------------------ Copart: prices
\* The value of a monetary key of a lot: the key is absent, a JSON null, or
\* a JSON number, kept in tenths (tenths 15 is 1.5).
Absent == [kind |-> "absent", tenths |-> 0]
None == [kind |-> "null", tenths |-> 0]
Number(t) == [kind |-> "number", tenths |-> t]
RawPrices ==
    {Absent, None} \cup {Number(t) : t \in {0, 4, 5, 15, -4, -15, 9995, 12345678}}

\* lot.get(key) and lot.get(key, 0)
Get(raw) == IF raw = Absent THEN None ELSE raw
GetOr0(raw) == IF raw = Absent THEN Number(0) ELSE raw

\* mutant: the test is `is not None`
Truthy_not_none(v) == v # None

\* the truth value of what lot.get returned: None and 0 are false
Truthy(v) == v # None /\ v.tenths # 0

Digits == <<"0", "1", "2", "3", "4", "5", "6", "7", "8", "9">>

\* str(n) of an n >= 0
RECURSIVE IntStr(_)
IntStr(n) ==
    IF n < 10 THEN Digits[n + 1] ELSE IntStr(n \div 10) \o Digits[(n % 10) + 1]

\* the three digits of a group after a separator
Group(k) ==
    Digits[(k \div 100) + 1] \o Digits[((k \div 10) % 10) + 1]
        \o Digits[(k % 10) + 1]

\* the "," option of the format: groups of three digits
RECURSIVE Commas(_)
Commas(n) ==
    IF n < 1000 THEN IntStr(n)
    ELSE Commas(n \div 1000) \o "," \o Group(n % 1000)

\* the ".0f" of the format on a magnitude in tenths: to the nearest
\* integer, a half to the even one
Round0(a) ==
    LET q == a \div 10
        r == a % 10
    IN IF r > 5 \/ (r = 5 /\ q % 2 = 1) THEN q + 1 ELSE q

\* f"${v:,.0f}" of a number; the sign is kept even when the digits are 0
Format(v) ==
    LET t == v.tenths
    IN "$" \o (IF t < 0 THEN "-" ELSE "")
           \o Commas(Round0(IF t < 0 THEN 0 - t ELSE t))

\* f"${v:,.0f}" if v else ""
Price(v) == IF Truthy(v) THEN Format(v) ELSE ""

\* f"${bnp:,.0f}" if bnp and bnp > 0 else ""
BuyNow(v) == IF Truthy(v) /\ v.tenths > 0 THEN Format(v) ELSE ""

\* the monetary fields of the item _parse_copart_lot builds
ParsedPrices(lot) ==
    [est_value |-> Price(Get(lot.la)),
     repair_cost |-> Price(Get(lot.rc)),
     bid |-> Price(GetOr0(lot.hb)),
     buy_now |-> BuyNow(GetOr0(lot.bnp))]

\* model_upper in mmod.upper() or model_upper in ld.upper()
MatchesModel(lot) == lot.mmod \in HasModel \/ lot.ld \in HasModel

\* mmod.upper() on a JSON null raises AttributeError
LotRaises(lot) == lot.mmod = Null

ContentRaises(content) == \E i \in 1..Len(content) : LotRaises(content[i])

\* the for loop over content, on a content that does not raise
RECURSIVE FilterContent(_, _)
FilterContent(content, t) ==
    IF content = <<>> THEN <<>>
    ELSE (IF MatchesModel(Head(content))
             THEN _parse_copart_lot(Head(content), t) ELSE <<>>)
         \o FilterContent(Tail(content), t)

\* The answers to a search POST.  kind: the request raises (error, timeout),
\* a status other than 200, a body resp.json() raises on, a returnCode other
\* than 1, or a result envelope.  The content of an envelope is `lots`
\* followed by n - Len(lots) well-formed lots of other models; n is
\* len(content).
\* `totals` are the values of totalElements (0 when the key is absent).
ContentSizes == {0, 37, PageSize}
FailKinds == {"raise", "http_error", "bad_json", "api_error"}
CopartResponses(totals) ==
    {[kind |-> k, n |-> 0, lots |-> <<>>, totalElements |-> 0] : k \in FailKinds}
    \cup {r \in [kind : {"ok"}, n : ContentSizes,
                  lots : SeqsUpTo(Lots, MaxLots), totalElements : totals] :
            Len(r.lots) <= r.n}
\* an API whose search has at most two pages, and any API
ShortTotals == {0, 150}
Totals == {0, 150, 5000}

\* mutant: only a short page ends the loop
LastPage_size_only(n, p, total) == n < PageSize

\* mutant: the size of the page does not end the loop
LastPage_total_only(n, p, total) == (p + 1) * PageSize >= total

\* the stop test after a page: len(content) < 100 or (page+1)*100 >= total
LastPage(n, p, total) == n < PageSize \/ (p + 1) * PageSize >= total

\* mutant: the cap lets one page more through
WhileTest_inclusive(p) == p <= max_pages

\* while page < max_pages
WhileTest(p) == p < max_pages

\* ----------------------------------------------------------- coordinator
\* mutant: a link already known is accepted again
IsNew_any_link(item, ids) == item.link # ""

\* mutant: a record without link is accepted
IsNew_no_link_test(item, ids) == item.link \notin ids

\* item["link"] and item["link"] not in existing_ids
IsNew(item, ids) == item.link # "" /\ item.link \notin ids

\* mutant: an accepted link is not added to existing_ids
RECURSIVE MergeNew_no_add(_, _, _)
MergeNew_no_add(items, ids, new) ==
    IF items = <<>> THEN [ids |-> ids, new |-> new]
    ELSE IF IsNew(Head(items), ids)
         THEN MergeNew_no_add(Tail(items), ids, Append(new, Head(items)))
         ELSE MergeNew_no_add(Tail(items), ids, new)

\* mutant: an accepted listing is put before those accepted so far
RECURSIVE MergeNew_prepend(_, _, _)
MergeNew_prepend(items, ids, new) ==
    IF items = <<>> THEN [ids |-> ids, new |-> new]
    ELSE IF IsNew(Head(items), ids)
         THEN MergeNew_prepend(Tail(items), ids \cup {Head(items).link},
                               << Head(items) >> \o new)
         ELSE MergeNew_prepend(Tail(items), ids, new)

\* the loop over an adapter's results: [ids, new] after it
RECURSIVE MergeNew(_, _, _)
MergeNew(items, ids, new) ==
    IF items = <<>> THEN [ids |-> ids, new |-> new]
    ELSE IF IsNew(Head(items), ids)
         THEN MergeNew(Tail(items), ids \cup {Head(items).link},
                       Append(new, Head(items)))
         ELSE MergeNew(Tail(items), ids, new)

\* mutant: only the new listings are saved
all_listings_new_only == new_listings

all_listings == existing \o new_listings

\* Where run_scraper goes on after an adapter raised: the except clause of the
\* IAAI block prints and falls through to the Copart block, that of the
\* Copart block to the summary.  "aborted" is run_scraper left by an exception.
\* mutant: the exception of scrape_iaai is not caught
IaaiExcept_none == "aborted"

IaaiExcept == "copart_session"
CopartExcept == "summary"

\* datetime.now().strftime("%Y-%m-%d %H:%M"): the minute of the execution,
\* each execution taking place in a minute of its own
now == runs

NoResp == [kind |-> "none", n |-> 0, totalElements |-> 0, page |-> 0]

\* mutant: what is accepted so far is saved after every adapter step
KeepFile_autosave == save_listings(existing \o new_listings)

\* the lines the summary prints of each new listing: its source, its name
\* and its link
Printed(items) ==
    [i \in 1..Len(items) |->
        [source |-> items[i].source, name |-> items[i].name,
         link |-> items[i].link]]

\* nothing printed; `total` is the count of "Lacznie ofert w bazie", <<>>
\* until it is printed
NoSummary == [new |-> <<>>, total |-> <<>>]

\* the adapter blocks of run_scraper do not write the catalog file
KeepFile == UNCHANGED <<file_exists, file_content, file_complete, saves>>

\* no catalog file, run_scraper not yet called
InitRun ==
    /\ file_exists = FALSE
    /\ file_content = <<>>
    /\ file_complete = TRUE
    /\ had_file = FALSE
    /\ saves = 0
    /\ page_content = <<>>
    /\ runs = 0
    /\ pc = "idle"
    /\ existing = <<>>
    /\ existing_ids = {}
    /\ new_listings = <<>>
    /\ iaai_results = <<>>
    /\ iaai_raised = FALSE
    /\ copart_results = <<>>
    /\ copart_raised = FALSE
    /\ page = 0
    /\ results = <<>>
    /\ posts = <<>>
    /\ gets = 0
    /\ last_resp = NoResp
    /\ summary = NoSummary
    /\ prev = [run |-> 0, iaai_results |-> <<>>, iaai_raised |-> FALSE,
               copart_results |-> <<>>, copart_raised |-> FALSE,
               file_exists |-> FALSE, file_content |-> <<>>]

\* no lot is being parsed
InitPriceIdle ==
    /\ lot_prices = <<>>
    /\ parsed_prices = <<>>

\* the web application is not running
InitAppIdle ==
    /\ IS_VERCEL = FALSE
    /\ _last_refresh_ts = 0
    /\ clock = 0
    /\ refresh_status = "none"
    /\ refresh_started = 0
    /\ refresh_remaining = <<>>

\* no damage code is being translated
InitDamageIdle ==
    /\ damage_code = <<>>
    /\ damage_label = <<>>

\* there is no second scraper process
NoPeer == [pc |-> "none", existing |-> <<>>, new_listings |-> <<>>]
InitPeerIdle == peer = NoPeer

\* no request is being served and no catalog was read
InitWebIdle ==
    /\ threads = <<>>
    /\ read_result = <<>>

\* nothing but the scraper is followed
InitOthersIdle ==
    /\ InitPriceIdle
    /\ InitAppIdle
    /\ InitDamageIdle
    /\ InitPeerIdle
    /\ InitWebIdle

Init == InitRun /\ InitOthersIdle

\* what the execution that has ended returned, and the file it left
Ended ==
    [run |-> runs, iaai_results |-> iaai_results, iaai_raised |-> iaai_raised,
     copart_results |-> copart_results, copart_raised |-> copart_raised,
     file_exists |-> file_exists, file_content |-> file_content]

\* run_scraper is called for the n-th time at most: the catalog is loaded
\* and indexed; p is the record kept of the execution before
Load(n, p) ==
    /\ pc = "idle"
    /\ runs < n
    /\ file_exists => file_complete
    /\ had_file' = file_exists
    /\ saves' = 0
    /\ page_content' = <<>>
    /\ runs' = runs + 1
    /\ prev' = p
    /\ existing' = load_existing_listings
    /\ existing_ids' = get_existing_ids(load_existing_listings)
    /\ new_listings' = <<>>
    /\ iaai_results' = <<>>
    /\ iaai_raised' = FALSE
    /\ copart_results' = <<>>
    /\ copart_raised' = FALSE
    /\ page' = 0
    /\ results' = <<>>
    /\ posts' = <<>>
    /\ gets' = 0
    /\ last_resp' = NoResp
    /\ pc' = "iaai"
    /\ UNCHANGED <<file_exists, file_content, file_complete>>
    /\ summary' = NoSummary
    /\ UNCHANGED not_run_vars

\* the IAAI block: scrape_iaai and the loop over its results, in the try
ScrapeIaai ==
    /\ pc = "iaai"
    /\ \E resp \in IaaiResponses :
         IF resp.kind = "raise"
         THEN /\ iaai_raised' = TRUE
              /\ pc' = IaaiExcept
              /\ UNCHANGED <<iaai_results, existing_ids, new_listings>>
         ELSE LET res == scrape_iaai(resp, now)
                  m == MergeNew(res, existing_ids, new_listings)
              IN /\ iaai_results' = res
                 /\ existing_ids' = m.ids
                 /\ new_listings' = m.new
                 /\ pc' = "copart_session"
                 /\ UNCHANGED iaai_raised
    /\ UNCHANGED <<runs, existing, copart_results, copart_raised, page,
                   results, posts, gets, last_resp, prev, had_file, page_content>>
    /\ KeepFile
    /\ UNCHANGED <<summary, not_run_vars>>

\* scrape_copart up to its loop: the warm-up GET, whose status is not read
CopartSession ==
    /\ pc = "copart_session"
    /\ gets' = gets + 1
    /\ \E raises \in BOOLEAN :
         IF raises
         THEN /\ copart_raised' = TRUE
              /\ pc' = CopartExcept
         ELSE /\ pc' = "copart_page"
              /\ UNCHANGED copart_raised
    /\ page' = 0
    /\ results' = <<>>
    /\ UNCHANGED <<runs, existing, existing_ids, new_listings, iaai_results,
                   iaai_raised, copart_results, posts, last_resp, prev,
                   had_file, page_content>>
    /\ KeepFile
    /\ UNCHANGED <<summary, not_run_vars>>

\* mutant: the payload is sent as it was built
Payload_as_built(p) == [page |-> 0, start |-> 0, size |-> PageSize]

\* the page, start and size of the payload of the POST of page p
Payload(p) == [page |-> p, start |-> p * PageSize, size |-> PageSize]

\* scrape_copart returns res: the Copart loop of run_scraper over it
CopartReturn(res) ==
    LET m == MergeNew(res, existing_ids, new_listings)
    IN /\ results' = res
       /\ copart_results' = res
       /\ existing_ids' = m.ids
       /\ new_listings' = m.new
       /\ pc' = "summary"
       /\ UNCHANGED <<page, copart_raised>>

\* an exception leaves scrape_copart: its results are lost, the except
\* clause of run_scraper prints it
CopartRaise ==
    /\ copart_raised' = TRUE
    /\ pc' = CopartExcept
    /\ UNCHANGED <<page, results, copart_results, existing_ids, new_listings>>

\* one turn of the while loop of scrape_copart: the POST of `page` and what
\* follows it up to the next POST or, when the loop ends, to the summary.
\* resps are the answers the API may give; with keep, the lots of the answer
\* are kept in `page_content`.
CopartPostOn(resps, keep) ==
    /\ pc = "copart_page"
    /\ WhileTest(page)
    /\ posts' = Append(posts, Payload(page))
    /\ \E resp \in resps :
         LET found == results \o FilterContent(resp.lots, now)
         IN /\ resp.kind = "ok" /\ ~ContentRaises(resp.lots)
                  => Len(found) <= MaxResults
            /\ page_content' = IF keep THEN resp.lots ELSE page_content
            /\ last_resp' = [kind |-> IF resp.kind = "ok" /\ ContentRaises(resp.lots)
                                         THEN "bad_lot" ELSE resp.kind,
                             n |-> resp.n, totalElements |-> resp.totalElements,
                             page |-> page]
            /\ IF resp.kind \in {"raise", "bad_json"} THEN CopartRaise
               ELSE IF resp.kind \in {"http_error", "api_error"}
                    THEN CopartReturn(results)
               ELSE IF resp.n = 0 THEN CopartReturn(results)
               ELSE IF ContentRaises(resp.lots) THEN CopartRaise
               ELSE IF LastPage(resp.n, page, resp.totalElements)
                       \/ ~WhileTest(page + 1)
                    THEN CopartReturn(found)
               ELSE /\ page' = page + 1
                    /\ results' = found
                    /\ UNCHANGED <<pc, copart_results, copart_raised,
                                   existing_ids, new_listings>>
    /\ UNCHANGED <<runs, existing, iaai_results, iaai_raised, gets, prev,
                   had_file>>
    /\ KeepFile
    /\ UNCHANGED <<summary, not_run_vars>>

CopartPost(totals) == CopartPostOn(CopartResponses(totals), FALSE)

\* mutant: the catalog is saved whatever was accepted
AnyNew_always(new) == TRUE

\* if new_listings:
AnyNew(new) == new # <<>>

\* the summary: the catalog is saved when new_listings is not empty
Summary ==
    /\ pc = "summary"
    /\ IF AnyNew(new_listings)
       THEN save_listings(all_listings)
       ELSE UNCHANGED <<file_exists, file_content, file_complete, saves>>
    /\ pc' = "idle"
    /\ UNCHANGED <<runs, existing, existing_ids, new_listings,
                   iaai_results, iaai_raised, copart_results, copart_raised,
                   page, results, posts, gets, last_resp, prev, had_file,
                   page_content>>
    /\ summary' = [new |-> Printed(new_listings),
                   total |-> << IF AnyNew(new_listings)
                                THEN Len(all_listings)
                                ELSE Len(existing) >>]
    /\ UNCHANGED not_run_vars

\* ------------------------------------------------------- specifications
\* executions one after the other, of an API with at most two pages
StartRun == Load(MaxRuns, prev)

Next ==
    \/ StartRun
    \/ ScrapeIaai
    \/ CopartSession
    \/ CopartPost(ShortTotals)
    \/ Summary

Spec == Init /\ [][Next]_vars

\* one execution, of an API that reports any totalElements
StartOnce == Load(1, prev)

NextPaging ==
    \/ StartOnce
    \/ ScrapeIaai
    \/ CopartSession
    \/ CopartPost(Totals)
    \/ Summary

SpecPaging == Init /\ [][NextPaging]_vars

\* executions one after the other against unchanged source data: from the
\* second execution on, each adapter returns the records it returned in the
\* execution before (date_found apart, which the adapter stamps)
Strip(items) ==
    [i \in 1..Len(items) |->
        [source |-> items[i].source, name |-> items[i].name,
         link |-> items[i].link]]

SameIaai ==
    /\ iaai_raised = prev.iaai_raised
    /\ Strip(iaai_results) = Strip(prev.iaai_results)

SameCopart ==
    /\ copart_raised = prev.copart_raised
    /\ Strip(copart_results) = Strip(prev.copart_results)

Rerun == Load(MaxRuns, Ended)

RerunIaai == ScrapeIaai /\ (prev.run >= 1 => SameIaai')

RerunCopartSession ==
    CopartSession /\ (prev.run >= 1 /\ pc' = "summary" => SameCopart')

RerunCopartPost ==
    CopartPost(ShortTotals) /\ (prev.run >= 1 /\ pc' = "summary" => SameCopart')

NextRerun ==
    \/ Rerun
    \/ RerunIaai
    \/ RerunCopartSession
    \/ RerunCopartPost
    \/ Summary

SpecRerun == Init /\ [][NextRerun]_vars

\* --------------------------------------------------------- the paging stub
\* an API stub that answers every POST with a successful page: the pages
\* have the sizes of StubPages, in that order, and no result after them;
\* the stub reports the same totalElements with every page of a search
StubPages == <<PageSize, PageSize, 37>>
StubTotals == {0, 150, 237, 5000}

StubSize(p) == IF p < Len(StubPages) THEN StubPages[p + 1] ELSE 0

StubResponses ==
    {r \in CopartResponses(StubTotals) :
        /\ r.kind = "ok"
        /\ r.n = StubSize(page)
        /\ page > 0 => r.totalElements = last_resp.totalElements}

StubPost == CopartPostOn(StubResponses, FALSE)

NextStub ==
    \/ StartOnce
    \/ ScrapeIaai
    \/ CopartSession
    \/ StubPost
    \/ Summary

SpecStub == Init /\ [][NextStub]_vars

\* --------------------------------------------------- failures of the file
\* mutant: a catalog that cannot be loaded counts as an empty one
LoadExcept_as_empty == "iaai"

\* load_existing_listings is called outside any try: what open or json.load
\* raises leaves run_scraper
LoadExcept == "load_error"

\* save_listings is called outside any try: what it raises leaves run_scraper
SaveExcept == "save_error"

\* run_scraper is called and DATA_FILE exists but cannot be opened, or its
\* text is not JSON: load_existing_listings raises.  No local of the call is
\* ever assigned; they are modelled as empty.  prev keeps the file as it was.
LoadFails ==
    /\ pc = "idle"
    /\ runs < MaxRuns
    /\ file_exists
    /\ runs' = runs + 1
    /\ prev' = Ended
    /\ had_file' = TRUE
    /\ saves' = 0
    /\ existing' = <<>>
    /\ existing_ids' = {}
    /\ new_listings' = <<>>
    /\ iaai_results' = <<>>
    /\ iaai_raised' = FALSE
    /\ copart_results' = <<>>
    /\ copart_raised' = FALSE
    /\ page' = 0
    /\ results' = <<>>
    /\ posts' = <<>>
    /\ gets' = 0
    /\ last_resp' = NoResp
    /\ page_content' = <<>>
    /\ pc' = LoadExcept
    /\ UNCHANGED <<file_exists, file_content, file_complete>>
    /\ summary' = NoSummary
    /\ UNCHANGED not_run_vars

\* the statements of run_scraper and save_listings that do not write
SaveFrame ==
    UNCHANGED <<runs, existing, existing_ids, new_listings, iaai_results,
                iaai_raised, copart_results, copart_raised, page, results,
                posts, gets, last_resp, prev, had_file, page_content,
                not_run_vars>>

\* the summary of an execution that accepted nothing
SummaryNothing ==
    /\ ~AnyNew(new_listings)
    /\ Summary

\* save_listings, first part: os.makedirs and open(DATA_FILE, "w"), which
\* creates the file or empties it
SaveOpen ==
    /\ pc = "summary"
    /\ AnyNew(new_listings)
    /\ saves' = saves + 1
    /\ file_exists' = TRUE
    /\ file_content' = <<>>
    /\ file_complete' = FALSE
    /\ pc' = "saving"
    /\ summary' = [new |-> Printed(new_listings), total |-> <<>>]
    /\ SaveFrame

\* save_listings, first part, when the directory or the file cannot be
\* written: os.makedirs or open raises
SaveOpenFails ==
    /\ pc = "summary"
    /\ AnyNew(new_listings)
    /\ saves' = saves + 1
    /\ pc' = SaveExcept
    /\ summary' = [new |-> Printed(new_listings), total |-> <<>>]
    /\ UNCHANGED <<file_exists, file_content, file_complete>>
    /\ SaveFrame

\* save_listings, second part: json.dump writes the listings and the file
\* is closed
SaveDump ==
    /\ pc = "saving"
    /\ file_content' = all_listings
    /\ file_complete' = TRUE
    /\ pc' = "idle"
    /\ summary' = [summary EXCEPT !.total = << Len(all_listings) >>]
    /\ UNCHANGED <<file_exists, saves>>
    /\ SaveFrame

\* the process is killed between open and the end of json.dump
Crash ==
    /\ pc = "saving"
    /\ pc' = "crashed"
    /\ UNCHANGED <<file_exists, file_content, file_complete, saves, summary>>
    /\ SaveFrame

\* the process has ended on a crash or an exception; the scraper is started
\* again
Restart ==
    /\ pc \in {"crashed", "load_error", "save_error"}
    /\ pc' = "idle"
    /\ UNCHANGED <<file_exists, file_content, file_complete, saves, summary>>
    /\ SaveFrame

\* executions one after the other, of an API with one page, with the steps
\* of save_listings apart and the failures of the file
NextCrash ==
    \/ StartRun
    \/ LoadFails
    \/ ScrapeIaai
    \/ CopartSession
    \/ CopartPost({0})
    \/ SummaryNothing
    \/ SaveOpen
    \/ SaveOpenFails
    \/ SaveDump
    \/ Crash
    \/ Restart

SpecCrash == Init /\ [][NextCrash]_vars

\* ------------------------------------------------- the two-adapter scenario
\* one execution from no catalog: the IAAI adapter returns one listing, the
\* warm-up GET succeeds and the Copart API answers the POST of page 0 with a
\* page of two lots, one of the searched model and one of another
ScenarioLots == [ln : LotNums, mmod : Mmods, ld : Lds]
ScenarioTotals == {0, 2}

\* the lot is a vehicle of the searched model: the model is named in its
\* mmod or in its ld
OfModel(lot) == lot.mmod \in HasModel \/ lot.ld \in HasModel

ScenarioResponses ==
    {r \in [kind : {"ok"}, n : {2}, lots : [1..2 -> ScenarioLots],
            totalElements : ScenarioTotals] :
        \E i, j \in 1..2 : /\ OfModel(r.lots[i])
                           /\ ~OfModel(r.lots[j])}

ScenarioIaai == ScrapeIaai /\ ~iaai_raised' /\ Len(iaai_results') = 1

ScenarioSession == CopartSession /\ ~copart_raised'

ScenarioPost == CopartPostOn(ScenarioResponses, TRUE)

NextScenario ==
    \/ StartOnce
    \/ ScenarioIaai
    \/ ScenarioSession
    \/ ScenarioPost
    \/ Summary

SpecScenario == Init /\ [][NextScenario]_vars

\* ------------------------------------------------ the prices of one lot
\* _parse_copart_lot is called on a lot with any values of la, rc, hb, bnp
InitPrice ==
    /\ InitRun
    /\ InitAppIdle
    /\ InitDamageIdle
    /\ InitPeerIdle
    /\ InitWebIdle
    /\ lot_prices \in {<< l >> : l \in [la : RawPrices, rc : RawPrices,
                                        hb : RawPrices, bnp : RawPrices]}
    /\ parsed_prices = <<>>

ParsePrices ==
    /\ lot_prices # <<>>
    /\ parsed_prices = <<>>
    /\ parsed_prices' = << ParsedPrices(lot_prices[1]) >>
    /\ UNCHANGED <<lot_prices, run_vars, app_vars, damage_vars, web_vars,
                   peer_vars>>

NextPrice == ParsePrices

SpecPrice == InitPrice /\ [][NextPrice]_vars

\* ------------------------------------------------- app.py: /api/refresh
_REFRESH_COOLDOWN == 3600

\* times are kept in tenths of a second
Seconds(n) == n * 10

\* int(x) of a float x, in tenths: the fraction is dropped, toward zero
Truncate(x) == IF x >= 0 THEN x \div 10 ELSE 0 - ((0 - x) \div 10)

\* the longest time the application is followed, in tenths of a second
MaxClock == 180000

\* the time between two events of the application
Delays == {Seconds(1800), Seconds(3599), Seconds(3599) + 5, Seconds(3600)}

\* The application starts: the flag is read from the environment once, the
\* timestamp is 0.0 and time.time(), Unix time, is far above the cooldown;
\* only its distance to the timestamp matters, and it starts at the
\* smallest that lets a first refresh through.
InitApp ==
    /\ IS_VERCEL \in BOOLEAN
    /\ _last_refresh_ts = 0
    /\ clock = Seconds(_REFRESH_COOLDOWN)
    /\ refresh_status = "none"
    /\ refresh_started = 0
    /\ refresh_remaining = <<>>

\* time passes between two requests
Tick ==
    /\ \E d \in Delays :
         /\ clock + d <= MaxClock
         /\ clock' = clock + d
    /\ UNCHANGED <<IS_VERCEL, _last_refresh_ts, refresh_status,
                   refresh_started, refresh_remaining, run_vars, price_vars,
                   damage_vars, web_vars, peer_vars>>

\* mutant: the deployment is never taken for a restricted one
Restricted_never == FALSE

\* if IS_VERCEL:
Restricted == IS_VERCEL

\* mutant: a request exactly one cooldown after the last start is refused
CoolingDown_inclusive == clock - _last_refresh_ts <= Seconds(_REFRESH_COOLDOWN)

\* if elapsed < _REFRESH_COOLDOWN, with elapsed = now - _last_refresh_ts
CoolingDown == clock - _last_refresh_ts < Seconds(_REFRESH_COOLDOWN)

\* remaining = int(_REFRESH_COOLDOWN - elapsed)
Remaining == Truncate(Seconds(_REFRESH_COOLDOWN) - (clock - _last_refresh_ts))

\* one POST /api/refresh, the whole handler: refresh_status is the status of
\* its JSON response and refresh_started counts the scraper threads started
api_refresh ==
    /\ IF Restricted
       THEN /\ refresh_status' = "skipped"
            /\ refresh_remaining' = <<>>
            /\ UNCHANGED <<_last_refresh_ts, refresh_started>>
       ELSE IF CoolingDown
       THEN /\ refresh_status' = "cooldown"
            /\ refresh_remaining' = << Remaining >>
            /\ UNCHANGED <<_last_refresh_ts, refresh_started>>
       ELSE /\ _last_refresh_ts' = clock
            /\ refresh_started' = refresh_started + 1
            /\ refresh_status' = "started"
            /\ refresh_remaining' = <<>>
    /\ UNCHANGED <<IS_VERCEL, clock, run_vars, price_vars, damage_vars,
                   web_vars, peer_vars>>

NextRefresh ==
    \/ Tick
    \/ api_refresh

\* no scraper run and no lot parsed; the application has started
InitRefresh ==
    /\ InitRun
    /\ InitPriceIdle
    /\ InitDamageIdle
    /\ InitPeerIdle
    /\ InitWebIdle
    /\ InitApp

SpecRefresh == InitRefresh /\ [][NextRefresh]_vars

\* -------------------------------------------------- two scraper processes
\* A second run_scraper process beside the first, on the same DATA_FILE.
\* Only the file is shared, so its steps are the three ends of what it does
\* to the file or learns from it: the load, the two adapter blocks, the
\* summary.  `peer` holds where it is and its existing and new_listings.

\* what the two adapters of the second process may return, one after the
\* other, from an IAAI page of one card at most and a Copart page with one
\* lot spelled out at most
PeerEmitted ==
    {ParseCards(c, now) \o FilterContent(l, now) :
        c \in SeqsUpTo(Cards, 1),
        l \in {x \in SeqsUpTo(Lots, 1) : ~ContentRaises(x)}}

\* the run state of the first process, the file apart
PeerFrame ==
    UNCHANGED <<runs, pc, existing, existing_ids, new_listings, iaai_results,
                iaai_raised, copart_results, copart_raised, page, results,
                posts, gets, last_resp, prev, had_file, saves, page_content,
                summary, price_vars, damage_vars, app_vars, web_vars>>

\* the second process loads the catalog
PeerLoad ==
    /\ peer.pc = "none"
    /\ file_exists => file_complete
    /\ peer' = [pc |-> "loaded", existing |-> load_existing_listings,
                new_listings |-> <<>>]
    /\ UNCHANGED <<file_exists, file_content, file_complete>>
    /\ PeerFrame

\* the two adapter blocks of the second process
PeerScrape ==
    /\ peer.pc = "loaded"
    /\ \E items \in PeerEmitted :
         peer' = [peer EXCEPT
                    !.pc = "summary",
                    !.new_listings =
                        MergeNew(items, get_existing_ids(peer.existing), <<>>).new]
    /\ UNCHANGED <<file_exists, file_content, file_complete>>
    /\ PeerFrame

\* mutant: the second process saves what is in the file now and what it
\* accepted
PeerAll_merged == load_existing_listings \o peer.new_listings

\* all_listings of the second process
PeerAll == peer.existing \o peer.new_listings

\* the summary of the second process; its save_listings call is not counted
\* in `saves`, which counts those of the first
PeerSummary ==
    /\ peer.pc = "summary"
    /\ IF AnyNew(peer.new_listings)
       THEN /\ file_exists' = TRUE
            /\ file_content' = PeerAll
            /\ file_complete' = TRUE
       ELSE UNCHANGED <<file_exists, file_content, file_complete>>
    /\ peer' = [peer EXCEPT !.pc = "done"]
    /\ PeerFrame

NextOverlap ==
    \/ StartOnce
    \/ ScrapeIaai
    \/ CopartSession
    \/ CopartPost({0})
    \/ Summary
    \/ PeerLoad
    \/ PeerScrape
    \/ PeerSummary

SpecOverlap == Init /\ [][NextOverlap]_vars

\* ------------------------------------------------ app.py: damage labels
\* A str is the sequence of its characters.  The letters of the codes:
Uppers == <<"A", "B", "C", "D", "E", "F", "G", "H", "I", "J", "K", "L", "M",
           "N", "O", "P", "Q", "R", "S", "T", "U", "V", "W", "X", "Y", "Z">>
Lowers == <<"a", "b", "c", "d", "e", "f", "g", "h", "i", "j", "k", "l", "m",
           "n", "o", "p", "q", "r", "s", "t", "u", "v", "w", "x", "y", "z">>

\* str.lower() and str.upper() of one character and of a str
LowerChar(c) ==
    IF \E i \in 1..Len(Uppers) : Uppers[i] = c
    THEN Lowers[CHOOSE i \in 1..Len(Uppers) : Uppers[i] = c] ELSE c
UpperChar(c) ==
    IF \E i \in 1..Len(Lowers) : Lowers[i] = c
    THEN Uppers[CHOOSE i \in 1..Len(Lowers) : Lowers[i] = c] ELSE c
Lower(s) == [i \in 1..Len(s) |-> LowerChar(s[i])]
Upper(s) == [i \in 1..Len(s) |-> UpperChar(s[i])]

\* str.strip(): the whitespace at both ends is dropped
Whitespace == {" "}
RECURSIVE LStrip(_)
LStrip(s) ==
    IF s # <<>> /\ Head(s) \in Whitespace THEN LStrip(Tail(s)) ELSE s
RECURSIVE RStrip(_)
RStrip(s) ==
    IF s # <<>> /\ s[Len(s)] \in Whitespace
    THEN RStrip(SubSeq(s, 1, Len(s) - 1)) ELSE s
StripStr(s) == RStrip(LStrip(s))

\* Entries of _DAMAGE_PL, key and label, the keys as written in the
\* source; the labels are kept as atoms, without their diacritics.
_DAMAGE_PL ==
    {<<<<"b", "u", "r", "n">>, "Spalony">>,
     <<<<"b", "u", "r", "n", " ", "-", " ", "L", "o", "s", "s">>, "Spalony">>,
     <<<<"f", "r", "o", "n", "t", " ", "e", "n", "d">>, "Przod">>,
     <<<<"n", "o", "n", "e">>, "Brak">>,
     <<<<"r", "e", "a", "r">>, "Tyl">>}

DamageKeys == {e[1] : e \in _DAMAGE_PL}

\* _DAMAGE_PL.get(key, default)
DamageGet(key, default) ==
    IF key \in DamageKeys
    THEN (CHOOSE e \in _DAMAGE_PL : e[1] = key)[2] ELSE default

\* what _translate_damage returns: a label of the table, or a str
Label(l) == [kind |-> "label", label |-> l, code |-> <<>>]
Code(s) == [kind |-> "str", label |-> "", code |-> s]

\* dmg.lower().strip()
Normalize(dmg) == StripStr(Lower(dmg))

\* _translate_damage(dmg); None and "" are <<>>
_translate_damage(dmg) ==
    IF dmg = <<>> THEN Code(<<>>)
    ELSE LET l == DamageGet(Normalize(dmg), "")
         IN IF Normalize(dmg) \in DamageKeys THEN Label(l) ELSE Code(dmg)

\* codes of no entry of the table
OtherCodes == {<<"f", "r", "a", "m", "e">>, <<"x">>}

\* The codes _translate_damage is called with: None or "", a blank, and
\* every key and other code as written, in lower case and in upper case,
\* bare or with a blank before it, after it or on both sides.
DamageCodes ==
    {<<>>, <<" ">>}
    \cup {pre \o v \o post :
            v \in UNION {{k, Lower(k), Upper(k)} : k \in DamageKeys \cup OtherCodes},
            pre \in {<<>>, <<" ">>}, post \in {<<>>, <<" ">>}}

InitDamage ==
    /\ InitRun
    /\ InitPriceIdle
    /\ InitAppIdle
    /\ InitPeerIdle
    /\ InitWebIdle
    /\ damage_code \in {<< c >> : c \in DamageCodes}
    /\ damage_label = <<>>

TranslateDamage ==
    /\ damage_code # <<>>
    /\ damage_label = <<>>
    /\ damage_label' = << _translate_damage(damage_code[1]) >>
    /\ UNCHANGED <<damage_code, run_vars, price_vars, app_vars, web_vars,
                   peer_vars>>

NextDamage == TranslateDamage

SpecDamage == InitDamage /\ [][NextDamage]_vars

\* ------------------------------------------------- summaries of two runs
\* executions one after the other, of an API with one page; prev keeps what
\* the summary of the execution before printed and which adapters raised
Reported ==
    [run |-> runs, iaai_raised |-> iaai_raised,
     copart_raised |-> copart_raised, summary |-> summary]

StartReported == Load(MaxRuns, Reported)

NextSummaries ==
    \/ StartReported
    \/ ScrapeIaai
    \/ CopartSession
    \/ CopartPost({0})
    \/ Summary

SpecSummaries == Init /\ [][NextSummaries]_vars

\* ------------------------------------ app.py: concurrent /api/refresh
\* app.run serves each request in a thread of its own; api_refresh takes no
\* lock.  A request is where it is in the handler, with its local `now`.
Requests == {"r1", "r2"}

InitRace ==
    /\ InitRun
    /\ InitPriceIdle
    /\ InitDamageIdle
    /\ InitPeerIdle
    /\ InitApp
    /\ threads = [r \in Requests |-> [pc |-> "idle", now |-> 0]]
    /\ read_result = <<>>

\* what no step of the refresh route touches
RefreshFrame ==
    UNCHANGED <<IS_VERCEL, run_vars, price_vars, damage_vars, peer_vars,
                read_result>>

\* time passes between two steps of the requests
RaceTick == Tick /\ UNCHANGED threads

\* a request arrives and runs api_refresh down to the test of the cooldown:
\* it answers "skipped" or "cooldown", or finds the cooldown over
RefreshCheck(r) ==
    /\ threads[r].pc = "idle"
    /\ IF Restricted
       THEN /\ refresh_status' = "skipped"
            /\ refresh_remaining' = <<>>
            /\ UNCHANGED threads
       ELSE IF CoolingDown
       THEN /\ refresh_status' = "cooldown"
            /\ refresh_remaining' = << Remaining >>
            /\ UNCHANGED threads
       ELSE /\ threads' = [threads EXCEPT ![r] = [pc |-> "expired", now |-> clock]]
            /\ UNCHANGED <<refresh_status, refresh_remaining>>
    /\ UNCHANGED <<_last_refresh_ts, refresh_started, clock>>
    /\ RefreshFrame

\* a request that found the cooldown over goes on: it assigns
\* _last_refresh_ts, starts the scraper thread and answers "started"
RefreshStart(r) ==
    /\ threads[r].pc = "expired"
    /\ _last_refresh_ts' = threads[r].now
    /\ refresh_started' = refresh_started + 1
    /\ refresh_status' = "started"
    /\ refresh_remaining' = <<>>
    /\ threads' = [threads EXCEPT ![r] = [pc |-> "idle", now |-> 0]]
    /\ UNCHANGED clock
    /\ RefreshFrame

NextRace ==
    \/ RaceTick
    \/ \E r \in Requests : RefreshCheck(r)
    \/ \E r \in Requests : RefreshStart(r)

SpecRace == InitRace /\ [][NextRace]_vars

\* -------------------------------------------- app.py: reads of the catalog
\* The application reads DATA_FILE while the scraper, a process of its own,
\* runs and saves.  load_listings of api_listings or api_stats: [] without
\* a file, json.load of its text otherwise, which raises on a text that is
\* not a whole JSON document.  read_result keeps what the call gave, with
\* the catalog the scraper loaded and the one it is to save.
load_listings ==
    IF ~file_exists THEN [kind |-> "ok", data |-> <<>>]
    ELSE IF file_complete THEN [kind |-> "ok", data |-> file_content]
    ELSE [kind |-> "error", data |-> <<>>]

ReadListings ==
    /\ read_result' = << [kind |-> load_listings.kind,
                          data |-> load_listings.data,
                          before |-> existing,
                          after |-> all_listings] >>
    /\ UNCHANGED <<run_vars, price_vars, damage_vars, app_vars, peer_vars,
                   threads>>

NextReader ==
    \/ StartRun
    \/ ScrapeIaai
    \/ CopartSession
    \/ CopartPost({0})
    \/ SummaryNothing
    \/ SaveOpen
    \/ SaveDump
    \/ ReadListings

SpecReader == Init /\ [][NextReader]_vars

\* ----------------------------------------------------------------- claims
Links(items) == {items[i].link : i \in 1..Len(items)}

IsPrefix(s, t) == Len(s) <= Len(t) /\ \A i \in 1..Len(s) : t[i] = s[i]

\* the records the adapters handed to run_scraper, in emission order
emitted == iaai_results \o copart_results

\* both adapter blocks of the execution are over
Merged == runs >= 1 /\ pc \in {"summary", "idle"}

\* the execution is over
Over == runs >= 1 /\ pc = "idle"

\* C1: when both adapters return in an execution the records they returned
\* in the execution before, the execution accepts no listing and leaves the
\* catalog file as the execution before left it.
C1_Idempotent ==
    (Over /\ prev.run >= 1 /\ SameIaai /\ SameCopart)
        => /\ new_listings = <<>>
           /\ file_exists = prev.file_exists
           /\ file_content = prev.file_content

C1_Witness ==
    /\ Over /\ prev.run >= 1 /\ SameIaai /\ SameCopart
    /\ Len(iaai_results) >= 1 /\ Len(copart_results) >= 1
    /\ Len(file_content) >= 2

\* C2: no two listings of the catalog file have the same link.
C2_UniqueLinks ==
    \A i, j \in 1..Len(file_content) :
        file_content[i].link = file_content[j].link => i = j

C2_Witness ==
    /\ Over /\ runs >= 2
    /\ Len(file_content) >= 2
    /\ new_listings # <<>>
    /\ \E i \in 1..Len(emitted) : emitted[i].link \in Links(existing)

\* the positions of link l in items
Positions(items, l) == {i \in 1..Len(items) : items[i].link = l}

First(S) == CHOOSE i \in S : \A j \in S : i <= j

\* C3 as stated: of a link (the empty link apart, which is none) emitted more
\* than once in an execution exactly one record is accepted, the first
\* emitted.
C3_AsStated ==
    Merged =>
        \A l \in Links(emitted) \ {""} :
            Cardinality(Positions(emitted, l)) >= 2
                => /\ Cardinality(Positions(new_listings, l)) = 1
                   /\ \A i \in Positions(new_listings, l) :
                         new_listings[i] = emitted[First(Positions(emitted, l))]

\* C3, amended: of a link emitted more than once in an execution, that is not
\* empty and not in the catalog loaded, exactly one record is accepted, the
\* first emitted; of an empty link or one in the catalog loaded, none.
C3_FirstSeenOnly ==
    Merged =>
        \A l \in Links(emitted) :
            Cardinality(Positions(emitted, l)) >= 2
                => IF l # "" /\ l \notin Links(existing)
                   THEN /\ Cardinality(Positions(new_listings, l)) = 1
                        /\ \A i \in Positions(new_listings, l) :
                              new_listings[i]
                                  = emitted[First(Positions(emitted, l))]
                   ELSE Positions(new_listings, l) = {}

\* a new link that IAAI and then Copart emit: the IAAI record is the one kept
C3_Witness ==
    /\ Merged
    /\ \E i \in 1..Len(iaai_results) : \E j \in 1..Len(copart_results) :
          /\ iaai_results[i].link = copart_results[j].link
          /\ iaai_results[i].link \notin Links(existing)
          /\ \E k \in 1..Len(new_listings) : new_listings[k] = iaai_results[i]

\* C4: a step never changes or removes a listing of the catalog file: the
\* catalog before it is a prefix of the catalog after it.
C4_PrefixKept == [][IsPrefix(file_content, file_content')]_vars

C4_Witness ==
    /\ Over
    /\ existing # <<>>
    /\ new_listings # <<>>
    /\ file_content = existing \o new_listings

\* C5: no listing of the catalog file, and none accepted, has the empty link.
C5_NoEmptyLink ==
    /\ \A i \in 1..Len(file_content) : file_content[i].link # ""
    /\ \A i \in 1..Len(new_listings) : new_listings[i].link # ""

C5_Witness ==
    /\ Over
    /\ \E i \in 1..Len(emitted) : emitted[i].link = ""
    /\ new_listings # <<>>
    /\ file_content = existing \o new_listings

\* C6: a step leaves the date_found of every stored link as it is: every
\* listing of the catalog after the step with the link of a listing before
\* it has that listing's date_found, and there is one.
C6_DateFoundKept ==
    [][\A i \in 1..Len(file_content) :
          /\ \E j \in 1..Len(file_content') :
                file_content'[j].link = file_content[i].link
          /\ \A j \in 1..Len(file_content') :
                file_content'[j].link = file_content[i].link
                    => file_content'[j].date_found = file_content[i].date_found]_vars

\* an execution that saved, in which an adapter emitted a stored link with a
\* newer date_found
C6_Witness ==
    /\ Over
    /\ new_listings # <<>>
    /\ file_content = existing \o new_listings
    /\ \E i \in 1..Len(emitted) : \E j \in 1..Len(existing) :
          /\ emitted[i].link = existing[j].link
          /\ emitted[i].date_found > existing[j].date_found

\* every record of items with a link is stored
Stored(items) ==
    \A i \in 1..Len(items) :
        items[i].link # "" => items[i].link \in Links(file_content)

\* C7: no exception of an adapter leaves run_scraper; after the IAAI block,
\* whether scrape_iaai raised or not, scrape_copart is called; and when the
\* execution is over the records of the adapter that did not fail are in the
\* catalog file, whatever happened to the other.
C7_FailureIsolated ==
    /\ pc \in {"idle", "iaai", "copart_session", "copart_page", "summary"}
    /\ Merged => gets = 1
    /\ Over => Stored(iaai_results) /\ Stored(copart_results)

C7_Witness ==
    /\ Over
    /\ iaai_raised
    /\ ~copart_raised
    /\ new_listings # <<>>
    /\ new_listings = copart_results

\* C8 as stated: when the POST of page k >= 1 fails (a status other than 200,
\* a returnCode other than 1, a request error), the records collected on the
\* pages before are handed to run_scraper, those with a new link are
\* accepted and stored, and the page is not posted again.
C8_FailedPageTruncates ==
    (Merged /\ last_resp.kind \in {"http_error", "api_error", "raise"}
            /\ last_resp.page >= 1)
        => /\ copart_results = results
           /\ \A i \in 1..Len(results) : results[i].link \in existing_ids
           /\ Over => Stored(results)
           /\ \A i, j \in 1..Len(posts) : posts[i].page = posts[j].page => i = j

\* C9: scrape_copart issues at most max_pages POSTs, and after the last of
\* them it is over.
C9_PageCap ==
    /\ Len(posts) <= max_pages
    /\ Len(posts) = max_pages => pc \in {"summary", "idle"}

\* the cap stops an API that sends full pages and a large totalElements
C9_Witness ==
    /\ Len(posts) = max_pages
    /\ pc = "summary"
    /\ last_resp.kind = "ok"
    /\ last_resp.n = PageSize
    /\ last_resp.totalElements > max_pages * PageSize

\* the response to the POST of page p lets the claim's rule go on
GoesOn(r) ==
    /\ r.kind \in {"ok", "bad_lot"}
    /\ r.n >= PageSize
    /\ (r.page + 1) * PageSize < r.totalElements
    /\ r.page + 1 < max_pages

\* C10 as stated: after the POST of page p, page p + 1 is posted if and only
\* if the response had status 200 and returnCode 1, at least 100 results,
\* (p + 1) * 100 < totalElements and p + 1 < 40.
C10_StopRule ==
    last_resp.kind # "none" =>
        /\ last_resp.page = posts[Len(posts)].page
        /\ GoesOn(last_resp) <=> pc = "copart_page" /\ page = last_resp.page + 1
        /\ ~GoesOn(last_resp) => pc \in {"summary", "idle"}


\* the page indices of the POSTs, in the order they were issued
PostedPages == [i \in 1..Len(posts) |-> posts[i].page]

\* scrape_copart has returned and every page the stub served was processed
StubServed == Merged /\ ~copart_raised /\ last_resp.kind = "ok"

\* C11 as stated: against the stub of pages of 100, 100 and 37 results,
\* scrape_copart issues the POSTs of pages 0, 1 and 2 and no other.
C11_ThreeRequests == StubServed => PostedPages = <<0, 1, 2>>

\* C11: against the stub of pages of 100, 100 and 37 results whose lots all
\* parse and which reports a totalElements above 200, scrape_copart issues
\* the POSTs of pages 0, 1 and 2 and no other; and it never issues a POST
\* out of that order or a fourth one.
C11_ThreeRequestsOfTotal ==
    /\ IsPrefix(PostedPages, <<0, 1, 2>>)
    /\ StubServed /\ last_resp.totalElements > 200
          => PostedPages = <<0, 1, 2>>

\* the short third page ends a search of 237 results, one of which matched
C11_Witness ==
    /\ StubServed
    /\ last_resp.totalElements = 237
    /\ last_resp.n = 37
    /\ PostedPages = <<0, 1, 2>>
    /\ copart_results # <<>>

\* C12: an execution that accepted no listing does not call save_listings
\* and leaves the catalog file as it found it: absent if it was absent, and
\* with the content it loaded otherwise.
C12_NoSaveOfNothing ==
    (Over /\ new_listings = <<>>)
        => /\ saves = 0
           /\ file_exists = had_file
           /\ file_content = existing

\* an execution over a stored catalog in which an adapter returned records,
\* every one of them a duplicate or without a link
C12_Witness ==
    /\ Over
    /\ new_listings = <<>>
    /\ had_file
    /\ emitted # <<>>
    /\ \E i \in 1..Len(emitted) : emitted[i].link \in Links(existing)
    /\ file_content = existing

\* an execution of run_scraper is under way
Running == pc \in {"iaai", "copart_session", "copart_page", "summary"}

\* C13: an execution works on the catalog it read when it started, calls
\* save_listings at most once, and not before both adapter blocks are over
\* and the summary is reached: at every point before, the catalog file is
\* as it was when the execution started.
C13_SingleLateWrite ==
    /\ saves <= 1
    /\ Running => /\ saves = 0
                  /\ file_exists = had_file
                  /\ file_content = existing
                  /\ existing_ids \ Links(new_listings) = Links(existing)

\* both adapters are over, listings were accepted and the stored catalog
\* is still as loaded
C13_Witness ==
    /\ pc = "summary"
    /\ new_listings # <<>>
    /\ copart_results # <<>>
    /\ had_file
    /\ existing # <<>>
    /\ file_content = existing
    /\ saves = 0

\* C14 as stated: when the process is killed inside save_listings, the
\* catalog file holds the whole catalog as it was loaded or the whole new
\* catalog, never an empty or a partial text.
C14_CrashSafe ==
    pc = "crashed"
        => /\ file_complete
           /\ file_content \in {existing, all_listings}

\* C15: an execution goes on past the load only with the catalog it read
\* from a whole file; when the load raises, the exception leaves
\* run_scraper, save_listings is not called and the file stays as it was;
\* when the file cannot be opened for writing, the exception leaves
\* run_scraper as well and the file stays as it was loaded.
C15_PersistenceErrorsFatal ==
    /\ (Running /\ had_file) => (file_complete /\ file_content = existing)
    /\ pc = "load_error"
          => /\ saves = 0
             /\ file_exists
             /\ file_content = prev.file_content
    /\ pc = "save_error"
          => /\ saves = 1
             /\ file_exists = had_file
             /\ file_content = existing

\* the load of a stored catalog of at least one listing has raised
C15_Witness ==
    /\ pc = "load_error"
    /\ file_complete
    /\ file_content # <<>>
    /\ saves = 0


\* C16: an execution that found no catalog file starts from the empty
\* catalog and goes on as any other, no exception leaving run_scraper; when
\* it is over, the file holds exactly the listings it accepted, in the order
\* of acceptance, if it accepted any, and otherwise there is still no file.
C16_FirstRun ==
    (runs >= 1 /\ ~had_file)
        => /\ existing = <<>>
           /\ pc \in {"idle", "iaai", "copart_session", "copart_page", "summary"}
           /\ Over => IF new_listings # <<>>
                         THEN file_exists /\ file_content = new_listings
                         ELSE ~file_exists

\* a first execution has created the file with the two listings it accepted,
\* one of each adapter
C16_Witness ==
    /\ Over
    /\ ~had_file
    /\ file_exists
    /\ Len(new_listings) = 2
    /\ file_content = new_listings
    /\ iaai_results # <<>>
    /\ copart_results # <<>>

\* the lot of the page of the scenario that is of the searched model
MatchingLot == CHOOSE l \in {page_content[i] : i \in 1..Len(page_content)} :
                   OfModel(l)

\* the scenario of C17 has been played: no catalog at the start, one IAAI
\* listing with a link L1, one page of two well-formed lots of which one is
\* of the searched model, with a description and a link L2 other than L1
ScenarioPlayed ==
    /\ Over
    /\ ~had_file
    /\ ~iaai_raised
    /\ Len(iaai_results) = 1
    /\ iaai_results[1].link # ""
    /\ last_resp.kind = "ok"
    /\ Len(page_content) = 2
    /\ \A i \in 1..2 : ~LotRaises(page_content[i])
    /\ MatchingLot.ld # ""
    /\ CopartLink(MatchingLot.ln) # iaai_results[1].link

\* C17: after the scenario the catalog holds exactly two listings, the IAAI
\* listing with link L1 and then the Copart listing with link L2, both
\* stamped with the date of the execution.
C17_Scenario ==
    ScenarioPlayed
        => /\ file_exists
           /\ Len(file_content) = 2
           /\ file_content[1] = iaai_results[1]
           /\ file_content[2].source = "Copart"
           /\ file_content[2].link = CopartLink(MatchingLot.ln)
           /\ \A i \in 1..2 : file_content[i].date_found = runs
           /\ runs > 0

\* the scenario with the lot of the other model first on the page
C17_Witness ==
    /\ ScenarioPlayed
    /\ ~OfModel(page_content[1])
    /\ Len(file_content) = 2
    /\ file_content[2].name = "2022 VOLVO XC40"

\* the raw value is zero or there is none
ZeroOrAbsent(raw) == raw \in {Absent, None, Number(0)}

\* the keys of a lot and the fields of the item made from them
PriceFields ==
    {<<"la", "est_value">>, <<"rc", "repair_cost">>, <<"hb", "bid">>,
     <<"bnp", "buy_now">>}

\* C18: in the item _parse_copart_lot builds, each of est_value,
\* repair_cost, bid and buy_now is the empty string when the lot's la, rc,
\* hb or bnp is zero, null or absent; a field that is not empty comes from
\* a raw value other than zero and starts with the currency sign.
C18_ZeroPriceSuppressed ==
    parsed_prices # <<>> =>
        \A f \in PriceFields :
            LET raw == lot_prices[1][f[1]]
                out == parsed_prices[1][f[2]]
            IN /\ ZeroOrAbsent(raw) => out = ""
               /\ out # "" => /\ raw.kind = "number"
                              /\ raw.tenths # 0
                              /\ out = Format(raw)

\* a lot with a zero la, no rc, a bid of 999.5 and a buy-now price of
\* 1,234,567.8
C18_Witness ==
    /\ parsed_prices # <<>>
    /\ lot_prices[1].la = Number(0)
    /\ lot_prices[1].rc = Absent
    /\ parsed_prices[1].est_value = ""
    /\ parsed_prices[1].repair_cost = ""
    /\ parsed_prices[1].bid = "$1,000"
    /\ parsed_prices[1].buy_now = "$1,234,568"

\* the lot parses to a listing of the searched model
WellFormedMatch(lot) == ~LotRaises(lot) /\ OfModel(lot) /\ lot.ld # ""

\* C19 as stated, for a Copart page: when scrape_copart is over, every
\* well-formed lot of the searched model on the page it was sent is among
\* the listings it returned, whatever the other lots of the page are.
C19_SiblingsKept ==
    (Merged /\ last_resp.kind \in {"ok", "bad_lot"})
        => \A i \in 1..Len(page_content) :
               WellFormedMatch(page_content[i])
                   => CopartLink(page_content[i].ln) \in Links(copart_results)

\* C20: where IS_VERCEL is set, every response of api_refresh has the status
\* "skipped", no scraper is ever started and _last_refresh_ts stays at its
\* initial 0.0.
C20_RestrictedSkips ==
    IS_VERCEL
        => /\ refresh_status \in {"none", "skipped"}
           /\ refresh_started = 0
           /\ _last_refresh_ts = 0

\* a refresh was asked for on a restricted deployment, two cooldowns after
\* the start
C20_Witness ==
    /\ IS_VERCEL
    /\ refresh_status = "skipped"
    /\ clock >= Seconds(3 * _REFRESH_COOLDOWN)
    /\ _last_refresh_ts = 0

\* both processes are over, both loaded the catalog before either saved,
\* and both saved
BothSavedOverlapped ==
    /\ Over
    /\ peer.pc = "done"
    /\ existing = peer.existing
    /\ new_listings # <<>>
    /\ peer.new_listings # <<>>

\* C21: when two executions overlap so that both load the catalog before
\* either saves, the catalog after both have saved is the catalog loaded
\* with the new listings of one of them only, the one that saved last: what
\* the other accepted is in the file only where the last one accepted it too.
C21_LastSaveWins ==
    BothSavedOverlapped
        => \/ file_content = existing \o new_listings
           \/ file_content = peer.existing \o peer.new_listings

\* the second process saved last, and a listing the first had saved is not
\* in the catalog
C21_Witness ==
    /\ BothSavedOverlapped
    /\ file_content = peer.existing \o peer.new_listings
    /\ \E l \in Links(new_listings) : l \notin Links(file_content)

\* the code differs from the key in letter case and in the whitespace
\* around it only
VariantOf(code, k) == StripStr(Lower(code)) = Lower(k)

\* C22 as stated: a code that is a key of the table up to letter case and
\* surrounding whitespace is translated as the key in lower case is, a code
\* that is no key that way is returned as given, and the empty code gives
\* the empty string.
C22_DamageNormalized ==
    damage_label # <<>> =>
        LET dmg == damage_code[1]
            out == damage_label[1]
        IN /\ \A k \in DamageKeys :
                 VariantOf(dmg, k) => out = _translate_damage(Lower(k))
           /\ (\A k \in DamageKeys : ~VariantOf(dmg, k)) => out = Code(dmg)
           /\ dmg = <<>> => out = Code(<<>>)

\* C23 as stated: the summary of an execution in which one adapter failed
\* and the other did not differs from the summary of an execution in which
\* both failed.
C23_PartialFailureTold ==
    (/\ Over
     /\ prev.run >= 1
     /\ prev.iaai_raised /\ prev.copart_raised
     /\ iaai_raised # copart_raised)
        => summary # prev.summary

\* C24: an execution issues one warm-up GET, before any POST; the POSTs
\* carry the pages 0, 1, 2, ... in order with start = page * 100 and
\* size = 100; and when scrape_copart is over without a POST, it is the
\* warm-up GET that raised.
C24_RequestOrder ==
    /\ gets <= 1
    /\ posts # <<>> => gets = 1
    /\ pc = "copart_page" => gets = 1
    /\ Merged => gets = 1
    /\ \A i \in 1..Len(posts) :
          posts[i] = [page |-> i - 1, start |-> (i - 1) * PageSize,
                      size |-> PageSize]
    /\ Merged => (posts = <<>> <=> (copart_raised /\ last_resp = NoResp))

\* three pages were asked for, after the GET
C24_Witness ==
    /\ Merged
    /\ gets = 1
    /\ Len(posts) = 3
    /\ posts[3].start = 2 * PageSize
    /\ ~copart_raised


\* where the k-th accepted listing was emitted first
EmittedAt(k) == First(Positions(emitted, new_listings[k].link))

\* C25: the listings an execution accepted are records the adapters
\* returned, in the order they returned them, IAAI's before Copart's; and
\* the catalog it saves is the catalog it loaded followed by them.
C25_AppendOrder ==
    /\ Merged =>
          /\ \A k \in 1..Len(new_listings) :
                /\ Positions(emitted, new_listings[k].link) # {}
                /\ new_listings[k] = emitted[EmittedAt(k)]
          /\ \A j, k \in 1..Len(new_listings) :
                j < k => EmittedAt(j) < EmittedAt(k)
          /\ \A j, k \in 1..Len(new_listings) :
                (j < k /\ new_listings[j].source = "Copart")
                    => new_listings[k].source = "Copart"
    /\ (Over /\ saves = 1) => file_content = existing \o new_listings

\* over a stored listing, an IAAI listing and then a Copart listing of
\* another link were appended
C25_Witness ==
    /\ Over
    /\ existing # <<>>
    /\ Len(new_listings) = 2
    /\ new_listings[1].source = "IAAI"
    /\ new_listings[2].source = "Copart"
    /\ file_content = existing \o new_listings

\* C26 as stated: the scraper runs api_refresh has started are a cooldown
\* apart at least, the first of them a cooldown after the epoch of the
\* clock at least; so n runs take n cooldowns.
C26_GateSerializes ==
    refresh_started * Seconds(_REFRESH_COOLDOWN) <= clock

\* the time since the last scraper run was started, in tenths of a second
SinceStart == clock - _last_refresh_ts

\* C27: outside the restricted environment, a request served less than 3600
\* seconds after the request that last started a run is answered "cooldown"
\* with remaining = 3600 - (t' - t) without its fraction, starts no run and
\* leaves _last_refresh_ts as it is; any other request, the first one after
\* the start of the process included, starts a run, sets _last_refresh_ts
\* to its time and is answered "started".  (A step that leaves the clock is
\* a request.)
C27_CooldownGate ==
    [][(clock' = clock /\ ~IS_VERCEL) =>
          IF refresh_started >= 1 /\ SinceStart < Seconds(_REFRESH_COOLDOWN)
          THEN /\ refresh_status' = "cooldown"
               /\ refresh_remaining'
                     = << (Seconds(_REFRESH_COOLDOWN) - SinceStart) \div 10 >>
               /\ refresh_started' = refresh_started
               /\ _last_refresh_ts' = _last_refresh_ts
          ELSE /\ refresh_status' = "started"
               /\ refresh_remaining' = <<>>
               /\ refresh_started' = refresh_started + 1
               /\ _last_refresh_ts' = clock]_vars

\* a request half a second before the end of the second cooldown was
\* refused with remaining 0
C27_Witness ==
    /\ ~IS_VERCEL
    /\ refresh_started = 2
    /\ refresh_status = "cooldown"
    /\ SinceStart = Seconds(_REFRESH_COOLDOWN) - 5
    /\ refresh_remaining = << 0 >>

\* C28 as stated: a load_listings call, whenever it is made, gives a whole
\* catalog: the one the scraper loaded or the one it saves.
C28_ReadersSeeWholeCatalog ==
    read_result # <<>> =>
        /\ read_result[1].kind = "ok"
        /\ read_result[1].data \in {read_result[1].before, read_result[1].after}

\* the link of every Copart lot without a lot number
BareLink == "https://www.copart.com/lot/"

\* C29: every record _parse_copart_lot returns has a link that is not
\* empty, the bare prefix when the lot has no number; no record scrape_copart
\* returned is dropped for its link being empty: each is accepted or its
\* link is in the catalog or was accepted before it; and the catalog never
\* holds two listings with the bare prefix as link.
C29_CopartLinkNeverEmpty ==
    /\ \A lot \in Lots :
          LET item == _parse_copart_lot(lot, now)
          IN item # <<>> => /\ item[1].link # ""
                            /\ lot.ln = "" => item[1].link = BareLink
    /\ \A i \in 1..Len(copart_results) : copart_results[i].link # ""
    /\ Merged => \A i \in 1..Len(copart_results) :
                    copart_results[i].link
                        \in Links(existing) \cup Links(new_listings)
    /\ Cardinality(Positions(file_content, BareLink)) <= 1
    /\ Cardinality(Positions(existing \o new_listings, BareLink)) <= 1

\* a lot without a number is stored, and an execution that was returned
\* such a lot again did not accept it
C29_Witness ==
    /\ Over
    /\ BareLink \in Links(existing)
    /\ \E i \in 1..Len(copart_results) : copart_results[i].link = BareLink
    /\ BareLink \notin Links(new_listings)
    /\ Cardinality(Positions(file_content, BareLink)) = 1

\* C30: after a response with status 200, returnCode 1 and a page that is
\* not empty but no totalElements (read as 0), no further page is asked
\* for, also when the page held 100 results: scrape_copart is over and the
\* POST of that page is the last one.
C30_MissingTotalStops ==
    (/\ last_resp.kind \in {"ok", "bad_lot"}
     /\ last_resp.n > 0
     /\ last_resp.totalElements = 0)
        => /\ pc \in {"summary", "idle"}
           /\ posts[Len(posts)].page = last_resp.page

\* a full first page without totalElements ended the search
C30_Witness ==
    /\ pc = "summary"
    /\ last_resp.kind = "ok"
    /\ last_resp.n = PageSize
    /\ last_resp.totalElements = 0
    /\ Len(posts) = 1
    /\ ~copart_raised
    /\ copart_results # <<>>
====
